---- MODULE Spec2Model ----
(***************************************************************************)
(* A model of lingua's regular-expression engine: the list-rewriting       *)
(* parser of grammar/regular_expressions.py, the operator nodes of         *)
(* grammar/operators.py and the epsilon-NFA stepping of automata/nfa.py.   *)
(*                                                                         *)
(* A character is a one-character string.  A regex text and a checked     *)
(* text are sequences of characters.  Python lists are sequences whose     *)
(* items are records tagged by the field k:                                *)
(*   [k |-> "chr", c]               a Python str of one character          *)
(*   [k |-> "list", items]          a nested Python list (a bracket group) *)
(*   [k |-> "Single", item]         operators.Single                       *)
(*   [k |-> "Collation", first, last]                                      *)
(*   [k |-> "Alternation" | "Concatenation", first, last]                  *)
(*   [k |-> "KleeneStar" | "KleenePlus" | "QuestionMark", item]            *)
(* A function that may raise returns [err, val]: err = "" and val the      *)
(* returned value, or err the exception and val = <<>>.                     *)
(*                                                                         *)
(* before is the current set of the automaton at the start of the last    *)
(* enter.  pda, entry, ppc and trail model the deterministic pushdown      *)
(* automaton of automata/pda.py: the automaton, the entry still to be      *)
(* read by _process, the position in _process and a record of the call.    *)
(* accumulator and call belong to a closure computation, lex to a lexer;   *)
(* they are described where their actions are defined.                     *)
(***************************************************************************)
EXTENDS Integers, Sequences, FiniteSets, TLC

VARIABLES text, pc, groups, group, automaton, current, input, entered, is_ok, error,
          before, pda, entry, ppc, trail, accumulator, call, lex

\* The variables of the pushdown automaton and of its driver.
pdaVars == <<pda, entry, ppc, trail>>

\* The variables of a closure computation and of the lexer.
auxVars == <<accumulator, call, lex>>

vars == <<text, pc, groups, group, automaton, current, input, entered, is_ok, error,
          before, pda, entry, ppc, trail, accumulator, call, lex>>

(***************************************************************************)
(* Bounds of the model.                                                    *)
(***************************************************************************)
MaxPatLen == 2

MaxInputLen == 2

MaxLaterLen == 1
\* the longest regex text over the collation characters
MaxColLen == 3

(***************************************************************************)
(* Python values and exceptions.                                           *)
(***************************************************************************)
Ok(v) == [err |-> "", val |-> v]

Err(e) == [err |-> e, val |-> <<>>]

IndexError == "IndexError"

TypeError == "TypeError"

AttributeError == "AttributeError"

OperatorInputTypeError == "OperatorInputTypeError"

UnbalancedParentheses == "ValueError: Unbalanced parentheses."

ParsingFailed == "ValueError: Parsing failed."

CollationFailed == "ValueError: Collation parsing failed, missing \"-\" character"

InvalidInput == "ValueError: invalid input"

KeyError == "KeyError"

Chr(c) == [k |-> "chr", c |-> c]

Lst(items) == [k |-> "list", items |-> items]

IsStr(item) == item.k = "chr"

IsList(item) == item.k = "list"

IsOperator(item) == item.k \notin {"chr", "list"}

\* item == c for a Python str c
StrEq(item, c) == IsStr(item) /\ item.c = c

Min(a, b) == IF a < b THEN a ELSE b

Max(a, b) == IF a < b THEN b ELSE a

\* A slice bound as Python normalises it for a list of length n.
PyBound(i, n) == IF i < 0 THEN Max(i + n, 0) ELSE Min(i, n)

\* s[lo:hi]
PySlice(s, lo, hi) ==
    LET l == PyBound(lo, Len(s))
        h == PyBound(hi, Len(s))
    IN  IF h <= l THEN <<>> ELSE SubSeq(s, l + 1, h)

\* s[lo:hi:2]
PySlice2(s, lo, hi) ==
    LET l == PyBound(lo, Len(s))
        h == PyBound(hi, Len(s))
        n == IF h <= l THEN 0 ELSE (h - l + 1) \div 2
    IN  [j \in 1..n |-> s[l + 2 * (j - 1) + 1]]

\* s[lo:hi] = repl
PySliceAssign(s, lo, hi, repl) ==
    LET l == PyBound(lo, Len(s))
        h == Max(PyBound(hi, Len(s)), l)
    IN  SubSeq(s, 1, l) \o repl \o SubSeq(s, h + 1, Len(s))

\* whether s[i] raises IndexError
PyBadIndex(s, i) == i >= Len(s) \/ i < 0 - Len(s)

\* s[i]
PyGet(s, i) == IF i < 0 THEN s[i + Len(s) + 1] ELSE s[i + 1]

\* s[i] = v
PySet(s, i, v) == [s EXCEPT ![IF i < 0 THEN i + Len(s) + 1 ELSE i + 1] = v]

(***************************************************************************)
(* Operator constructors (grammar/operators.py).                           *)
(***************************************************************************)
\* Operator._check_type_err for _item_types = {str, Operator}
ValidStrOrOperator(item) == IsStr(item) \/ IsOperator(item)

Single(item) == Ok([k |-> "Single", item |-> item])

\* Collation(*args): two positional arguments, each a str
Collation(args) ==
    IF Len(args) # 2 THEN Err(TypeError)
    ELSE IF ~IsStr(args[1]) \/ ~IsStr(args[2]) THEN Err(OperatorInputTypeError)
    ELSE Ok([k |-> "Collation", first |-> args[1], last |-> args[2]])

Binary(kind, first, last) ==
    IF ~ValidStrOrOperator(first) \/ ~ValidStrOrOperator(last)
    THEN Err(OperatorInputTypeError)
    ELSE Ok([k |-> kind, first |-> first, last |-> last])

Alternation(first, last) == Binary("Alternation", first, last)

Concatenation(first, last) == Binary("Concatenation", first, last)

Unary(kind, item) ==
    IF ~ValidStrOrOperator(item) THEN Err(OperatorInputTypeError)
    ELSE Ok([k |-> kind, item |-> item])

\* RegEx.unary_operators: '+', '?', '*' ('' is no item of a group)
unary_operators(c) ==
    CASE c = "+" -> "KleenePlus"
      [] c = "?" -> "QuestionMark"
      [] c = "*" -> "KleeneStar"

IsUnaryOperator(item) == IsStr(item) /\ item.c \in {"+", "?", "*"}

\* item in RegEx.binary_operators; the end of the list reads as ''
IsBinaryOperator(item) == IsStr(item) /\ item.c \in {"|", ""}

(***************************************************************************)
(* RegEx._extract_bracket: the text to a nested list.  i, lpar_index and   *)
(* rpar_index are Python's (0-based) indices.                              *)
(***************************************************************************)
RECURSIVE _extract_bracket(_)
RECURSIVE ExtractLoop(_, _, _, _, _, _)
ExtractLoop(t, i, par_count, lpar_index, rpar_index, res) ==
    IF i >= Len(t)
    THEN IF par_count # 0 THEN Err(UnbalancedParentheses) ELSE Ok(res)
    ELSE
      LET char == t[i + 1]
          escaped == i > 0 /\ t[i] = "\\"
      IN
      IF char \in {"(", ")"} /\ escaped
      THEN ExtractLoop(t, i + 1, par_count, lpar_index, rpar_index,
                       Append(res, Chr(char)))
      ELSE
        LET pc1 == IF char = "(" THEN par_count + 1
                   ELSE IF char = ")" THEN par_count - 1 ELSE par_count
            lp1 == IF char = "(" /\ lpar_index = -1 THEN i ELSE lpar_index
            rp1 == IF char = ")" THEN i ELSE rpar_index
            res1 == IF char \notin {"(", ")"} /\ ~(lpar_index >= 0)
                    THEN Append(res, Chr(char)) ELSE res
        IN
        IF pc1 = 0 /\ lp1 >= 0 /\ rp1 >= 0
        THEN LET sub == _extract_bracket(PySlice(t, lp1 + 1, rp1))
             IN  IF sub.err # "" THEN sub
                 ELSE ExtractLoop(t, i + 1, pc1, -1, -1,
                                  Append(res1, Lst(sub.val)))
        ELSE ExtractLoop(t, i + 1, pc1, lp1, rp1, res1)

_extract_bracket(t) == ExtractLoop(t, 0, 0, -1, -1, <<>>)

(***************************************************************************)
(* RegEx._escape_characters.  The loop runs over the list as passed in     *)
(* (g) and rewrites the copy.                                              *)
(***************************************************************************)
RECURSIVE EscapeLoop(_, _, _, _)
EscapeLoop(g, i, copied_group, compressed) ==
    IF i >= Len(g) \/ i >= Len(g) - compressed THEN Ok(copied_group)
    ELSE IF StrEq(g[i + 1], "\\")
    THEN IF PyBadIndex(copied_group, i + 1 - compressed) THEN Err(IndexError)
         ELSE EscapeLoop(g, i + 1,
                  PySliceAssign(copied_group, i - compressed, i + 2 - compressed,
                      <<Single(PyGet(copied_group, i + 1 - compressed)).val>>),
                  compressed + 1)
    ELSE EscapeLoop(g, i + 1, copied_group, compressed)

_escape_characters(g) == EscapeLoop(g, 0, g, 0)

(***************************************************************************)
(* RegEx._collate.                                                         *)
(***************************************************************************)
RECURSIVE CollateLoop(_, _, _, _, _, _)
CollateLoop(g, i, copied_groups, lpar_index, dash_index, compressed) ==
    IF i >= Len(g) THEN Ok(copied_groups)
    ELSE IF StrEq(g[i + 1], "[")
    THEN CollateLoop(g, i + 1, copied_groups, i, dash_index, compressed)
    ELSE IF StrEq(g[i + 1], "-")
    THEN CollateLoop(g, i + 1, copied_groups, lpar_index, i, compressed)
    ELSE IF StrEq(g[i + 1], "]")
    THEN IF dash_index # -1
         THEN LET collation == Collation(PySlice2(copied_groups,
                                   lpar_index + 1 - compressed, i - compressed))
              IN  IF collation.err # "" THEN collation
                  ELSE CollateLoop(g, i + 1,
                           PySliceAssign(copied_groups, lpar_index - compressed,
                                         i + 1 - compressed, <<collation.val>>),
                           lpar_index, dash_index, compressed + 4)
         ELSE Err(CollationFailed)
    ELSE CollateLoop(g, i + 1, copied_groups, lpar_index, dash_index, compressed)

_collate(g) == CollateLoop(g, 0, g, -1, -1, 0)

(***************************************************************************)
(* RegEx._process and the passes that call it back for a nested list.      *)
(***************************************************************************)
RECURSIVE _process(_)

\* RegEx._process_sublists
RECURSIVE SublistsLoop(_, _, _)
SublistsLoop(g, i, copied_groups) ==
    IF i >= Len(g) THEN Ok(copied_groups)
    ELSE IF IsList(g[i + 1])
    THEN LET item == _process(g[i + 1].items)
         IN  IF item.err # "" THEN item
             ELSE SublistsLoop(g, i + 1, PySet(copied_groups, i, item.val))
    ELSE SublistsLoop(g, i + 1, copied_groups)

_process_sublists(g) == SublistsLoop(g, 0, g)

\* RegEx._to_unary_operators
RECURSIVE UnaryLoop(_, _, _, _)
UnaryLoop(g, i, copied_groups, compressed) ==
    IF i >= Len(g) THEN Ok(copied_groups)
    ELSE IF IsList(g[i + 1])
    THEN LET processed == _process(g[i + 1].items)
         IN  IF processed.err # "" THEN processed
             ELSE IF PyBadIndex(copied_groups, i - compressed) THEN Err(IndexError)
             ELSE UnaryLoop(g, i + 1,
                      PySet(copied_groups, i - compressed, processed.val), compressed)
    ELSE IF IsUnaryOperator(g[i + 1])
    THEN IF PyBadIndex(copied_groups, i - 1 - compressed) THEN Err(IndexError)
         ELSE LET op == Unary(unary_operators(g[i + 1].c),
                              PyGet(copied_groups, i - 1 - compressed))
              IN  IF op.err # "" THEN op
                  ELSE UnaryLoop(g, i + 1,
                           PySliceAssign(copied_groups, i - 1 - compressed,
                                         i + 1 - compressed, <<op.val>>),
                           compressed + 1)
    ELSE UnaryLoop(g, i + 1, copied_groups, compressed)

_to_unary_operators(g) == UnaryLoop(g, 0, g, 0)

\* RegEx._concatenate
RECURSIVE ConcatenateLoop(_, _, _, _)
ConcatenateLoop(g, i, copied_groups, compressed) ==
    IF i >= Len(g) THEN Ok(copied_groups)
    ELSE
      LET item == g[i + 1]
          next_is_binary == IF i + 1 >= Len(g) THEN TRUE
                            ELSE IsBinaryOperator(g[i + 2])
          \* a list is unhashable: "next_char not in binary_operators" raises
          next_unhashable == i + 1 < Len(g) /\ IsList(g[i + 2])
      IN
      IF IsList(item)
      THEN LET processed == _process(item.items)
           IN  IF processed.err # "" THEN processed
               ELSE IF PyBadIndex(copied_groups, i - compressed) THEN Err(IndexError)
               ELSE ConcatenateLoop(g, i + 1,
                        PySet(copied_groups, i - compressed, processed.val),
                        compressed)
      ELSE IF ~IsBinaryOperator(item) /\ next_unhashable THEN Err(TypeError)
      ELSE IF ~IsBinaryOperator(item) /\ ~next_is_binary
      THEN IF PyBadIndex(copied_groups, i - compressed)
              \/ PyBadIndex(copied_groups, i + 1 - compressed)
           THEN Err(IndexError)
           ELSE LET op == Concatenation(PyGet(copied_groups, i - compressed),
                                        PyGet(copied_groups, i + 1 - compressed))
                IN  IF op.err # "" THEN op
                    ELSE ConcatenateLoop(g, i + 1,
                             PySliceAssign(copied_groups, i - compressed,
                                           i + 2 - compressed, <<op.val>>),
                             compressed + 1)
      ELSE ConcatenateLoop(g, i + 1, copied_groups, compressed)

_concatenate(g) == ConcatenateLoop(g, 0, g, 0)

\* RegEx._alternate
RECURSIVE AlternateLoop(_, _, _, _)
AlternateLoop(g, i, copied_groups, compressed) ==
    IF i >= Len(g) THEN Ok(copied_groups)
    ELSE
      LET item == g[i + 1]
      IN
      IF IsList(item)
      THEN LET processed == _process(item.items)
           IN  IF processed.err # "" THEN processed
               ELSE IF PyBadIndex(copied_groups, i - compressed) THEN Err(IndexError)
               ELSE AlternateLoop(g, i + 1,
                        PySet(copied_groups, i - compressed, processed.val),
                        compressed)
      ELSE IF IsBinaryOperator(item)
      THEN IF PyBadIndex(copied_groups, i - 1 - compressed)
              \/ PyBadIndex(copied_groups, i + 1 - compressed)
           THEN Err(IndexError)
           ELSE LET op == Alternation(PyGet(copied_groups, i - 1 - compressed),
                                      PyGet(copied_groups, i + 1 - compressed))
                IN  IF op.err # "" THEN op
                    ELSE AlternateLoop(g, i + 1,
                             PySliceAssign(copied_groups, i - 1 - compressed,
                                           i + 2 - compressed, <<op.val>>),
                             compressed + 2)
      ELSE AlternateLoop(g, i + 1, copied_groups, compressed)

_alternate(g) == AlternateLoop(g, 0, g, 0)

\* RegEx._clean
_clean(g) == Ok([i \in 1..Len(g) |-> IF IsStr(g[i]) THEN Single(g[i]).val ELSE g[i]])

\* The tail of RegEx._process: one item must be left.
ProcessResult(g) ==
    IF Len(g) > 1 THEN Err(ParsingFailed)
    ELSE IF Len(g) = 0 THEN Err(IndexError)
    ELSE Ok(g[1])

\* RegEx._process from each pass on: r is the result of the pass before,
\* the first exception ends the call.
ProcessFromClean(r) ==
    IF r.err # "" THEN r
    ELSE LET cleaned == _clean(r.val) IN ProcessResult(cleaned.val)

ProcessFromAlternate(r) ==
    IF r.err # "" THEN r ELSE ProcessFromClean(_alternate(r.val))

ProcessFromConcatenate(r) ==
    IF r.err # "" THEN r ELSE ProcessFromAlternate(_concatenate(r.val))

ProcessFromUnary(r) ==
    IF r.err # "" THEN r ELSE ProcessFromConcatenate(_to_unary_operators(r.val))

ProcessFromSublists(r) ==
    IF r.err # "" THEN r ELSE ProcessFromUnary(_process_sublists(r.val))

ProcessFromCollate(r) ==
    IF r.err # "" THEN r ELSE ProcessFromSublists(_collate(r.val))

_process(g) == ProcessFromCollate(_escape_characters(g))

(***************************************************************************)
(* Automata.  A state name is <<base, alias>>: the name written in the     *)
(* factory text and the number given by alias renaming (0: not renamed).   *)
(* An automaton is [states, inputs, start, accepted, delta, counter]:      *)
(* states the sequence of its state names, delta the set of transitions    *)
(* <<source, symbol, target>>, counter the next unused alias number.       *)
(***************************************************************************)
\* EPSILON_NFA.__init__: the default epsilon
Epsilon == "$"

\* The unformatted placeholder left in QuestionMark's factory text.
Placeholder == "{0}"

Name(base) == <<base, 0>>

NameSet(A) == {A.states[i] : i \in DOMAIN A.states}

\* State.forward(value)
Forward(A, state, value) == {d[3] : d \in {e \in A.delta : e[1] = state /\ e[2] = value}}

\* EpsilonNFA.factory on the five-section text form; EPSILON_NFA.__init__
\* adds epsilon to the inputs.
Factory(names, inputs, accepted, start, transitions) ==
    [states |-> names, inputs |-> inputs \cup {Epsilon}, start |-> start,
     accepted |-> accepted, delta |-> transitions, counter |-> 1]

\* The factory text "b0,b1 / c / b1 / b0 / b0,c->b1" of the operators.
TwoState(b0, b1, c) ==
    Factory(<<Name(b0), Name(b1)>>, {c}, {Name(b1)}, Name(b0),
            {<<Name(b0), c, Name(b1)>>})

\* The position of a name in a sequence of names.
Pos(names, n) == CHOOSE i \in DOMAIN names : names[i] = n

\* Alias renaming: the names of B that collide with the names in taken get
\* a fresh alias number counted from base.
Renaming(taken, B, base) ==
    [n \in NameSet(B) |-> IF n \in taken THEN <<n[1], base + Pos(B.states, n)>> ELSE n]

Renamed(B, ren, counter) ==
    [states |-> [i \in DOMAIN B.states |-> ren[B.states[i]]],
     inputs |-> B.inputs,
     start |-> ren[B.start],
     accepted |-> {ren[a] : a \in B.accepted},
     delta |-> {<<ren[d[1]], d[2], ren[d[3]]>> : d \in B.delta},
     counter |-> counter]

\* Mutant of RenameAway: colliding names are kept.
RenameAwayKeepsNames(taken, B, base) ==
    [B EXCEPT !.counter = base + Len(B.states) + 1]

\* B renamed so that it shares no name with the set taken.
RenameAway(taken, B, base) ==
    Renamed(B, Renaming(taken, B, base), base + Len(B.states) + 1)

\* Deep copy: freshly named, isomorphic states.
deepcopy(A) == RenameAway(NameSet(A), A, A.counter)

\* Concatenation, A * B.
Concat(A, B) ==
    LET R == RenameAway(NameSet(A), B, Max(A.counter, B.counter))
    IN  [states |-> A.states \o R.states,
         inputs |-> A.inputs \cup R.inputs,
         start |-> A.start,
         accepted |-> R.accepted,
         delta |-> A.delta \cup R.delta
                     \cup {<<a, Epsilon, R.start>> : a \in A.accepted},
         counter |-> R.counter]

\* Union, A + B.
Union(A, B) ==
    LET R == RenameAway(NameSet(A), B, Max(A.counter, B.counter))
        new_start == <<"union_start", R.counter>>
        new_accept == <<"union_accept", R.counter + 1>>
    IN  [states |-> <<new_start>> \o A.states \o R.states \o <<new_accept>>,
         inputs |-> A.inputs \cup R.inputs,
         start |-> new_start,
         accepted |-> {new_accept},
         delta |-> A.delta \cup R.delta
                     \cup {<<new_start, Epsilon, A.start>>,
                           <<new_start, Epsilon, R.start>>}
                     \cup {<<a, Epsilon, new_accept>> : a \in A.accepted \cup R.accepted},
         counter |-> R.counter + 2]

\* Kleene closure.
kleene_operator(A) ==
    LET new_start == <<"kleene_start", A.counter>>
        new_accept == <<"kleene_accept", A.counter + 1>>
    IN  [states |-> <<new_start>> \o A.states \o <<new_accept>>,
         inputs |-> A.inputs,
         start |-> new_start,
         accepted |-> {new_accept},
         delta |-> A.delta
                     \cup {<<new_start, Epsilon, A.start>>,
                           <<new_start, Epsilon, new_accept>>}
                     \cup {<<a, Epsilon, new_start>> : a \in A.accepted}
                     \cup {<<a, Epsilon, new_accept>> : a \in A.accepted},
         counter |-> A.counter + 2]

(***************************************************************************)
(* Operator.execute (grammar/operators.py).  The characters of the model   *)
(* are Chars, with the code points Python's ord gives them.                *)
(***************************************************************************)
Chars ==
    {"$", "(", ")", "*", "+", "-", "0", "1", "9", "?", "A", "Z", "[", "\\", "]",
     "_", "a", "b", "c", "z", "|"}

Ord(c) ==
    CASE c = "$" -> 36 [] c = "(" -> 40 [] c = ")" -> 41 [] c = "*" -> 42
      [] c = "+" -> 43 [] c = "-" -> 45 [] c = "0" -> 48 [] c = "1" -> 49
      [] c = "9" -> 57 [] c = "?" -> 63 [] c = "A" -> 65 [] c = "Z" -> 90
      [] c = "[" -> 91 [] c = "\\" -> 92 [] c = "]" -> 93 [] c = "_" -> 95
      [] c = "a" -> 97 [] c = "b" -> 98 [] c = "c" -> 99 [] c = "z" -> 122
      [] c = "|" -> 124

RECURSIVE execute(_)

\* An operand of an operator: a str goes through the factory with the
\* operator's two state names, an Operator is executed.
Operand(item, b0, b1) ==
    IF IsStr(item) THEN Ok(TwoState(b0, b1, item.c)) ELSE execute(item)

\* Single: the primitive single-symbol automaton s0 --a--> s1.
SingleExecute(op) ==
    IF IsStr(op.item) THEN Ok(TwoState("s0", "s1", op.item.c)) ELSE Err(TypeError)

\* Mutant of all_characters: range(ord(first), ord(last)), the last character
\* left out.
AllCharactersExclusive(op) ==
    {c \in Chars : Ord(op.first.c) <= Ord(c) /\ Ord(c) < Ord(op.last.c)}

\* Collation.all_characters
all_characters(op) == {c \in Chars : Ord(op.first.c) <= Ord(c) /\ Ord(c) <= Ord(op.last.c)}

\* Collation.execute
CollationExecute(op) ==
    Ok(Factory(<<Name("c0"), Name("c1")>>, all_characters(op), {Name("c1")}, Name("c0"),
               {<<Name("c0"), c, Name("c1")>> : c \in all_characters(op)}))

\* Alternation.execute
AlternationExecute(op) ==
    LET first_enfa == Operand(op.first, "u0", "u1")
        last_enfa == Operand(op.last, "u0", "u1")
    IN  IF first_enfa.err # "" THEN first_enfa
        ELSE IF last_enfa.err # "" THEN last_enfa
        ELSE Ok(Union(first_enfa.val, last_enfa.val))

\* Concatenation.execute
ConcatenationExecute(op) ==
    LET first_enfa == Operand(op.first, "c0", "c1")
        second_enfa == Operand(op.last, "c0", "c1")
    IN  IF first_enfa.err # "" THEN first_enfa
        ELSE IF second_enfa.err # "" THEN second_enfa
        ELSE Ok(Concat(first_enfa.val, second_enfa.val))

\* KleeneStar.execute
KleeneStarExecute(op) ==
    LET item_enfa == Operand(op.item, "ks0", "ks1")
    IN  IF item_enfa.err # "" THEN item_enfa
        ELSE Ok(kleene_operator(item_enfa.val))

\* KleenePlus.execute
KleenePlusExecute(op) ==
    LET enfa == Operand(op.item, "kp0", "kp1")
    IN  IF enfa.err # "" THEN enfa
        ELSE Ok(Concat(deepcopy(enfa.val), kleene_operator(enfa.val)))

\* QuestionMark.execute.  For a str the factory text is never formatted:
\* its input and its transition symbol are the placeholder.  For an
\* Operator the union's right operand is the Operator itself, not an
\* automaton, and the union raises.
QuestionMarkExecute(op) ==
    IF IsStr(op.item)
    THEN Ok(Factory(<<Name("qm0"), Name("qm1")>>, {Placeholder}, {Name("qm1")},
                    Name("qm0"),
                    {<<Name("qm0"), Placeholder, Name("qm1")>>,
                     <<Name("qm0"), Epsilon, Name("qm1")>>}))
    ELSE Err(AttributeError)

execute(op) ==
    CASE op.k = "Single" -> SingleExecute(op)
      [] op.k = "Collation" -> CollationExecute(op)
      [] op.k = "Alternation" -> AlternationExecute(op)
      [] op.k = "Concatenation" -> ConcatenationExecute(op)
      [] op.k = "KleeneStar" -> KleeneStarExecute(op)
      [] op.k = "KleenePlus" -> KleenePlusExecute(op)
      [] op.k = "QuestionMark" -> QuestionMarkExecute(op)

(***************************************************************************)
(* The execution engine (automata/nfa.py).                                 *)
(***************************************************************************)
\* EPSILON_NFA._e_closure: the recursion over state.forward(epsilon), the
\* accumulator closure passed on and returned.
RECURSIVE _e_closure(_, _, _)
RECURSIVE EClosureLoop(_, _, _)
EClosureLoop(A, todo, closure) ==
    IF todo = {} THEN closure
    ELSE LET eps == CHOOSE e \in todo : TRUE
         IN  EClosureLoop(A, todo \ {eps},
                 IF eps \notin closure THEN _e_closure(A, eps, closure) ELSE closure)

_e_closure(A, state, closure) ==
    EClosureLoop(A, Forward(A, state, Epsilon), closure \cup {state})

\* EPSILON_NFA._e_closures
RECURSIVE EClosuresLoop(_, _, _)
EClosuresLoop(A, todo, currents) ==
    IF todo = {} THEN currents
    ELSE LET i == CHOOSE e \in todo : TRUE
         IN  EClosuresLoop(A, todo \ {i}, currents \cup _e_closure(A, i, currents))

\* Mutant of _e_closures: the states are returned without their closures.
EClosuresNone(A, states) == states

_e_closures(A, states) == EClosuresLoop(A, states, states)

\* EPSILON_NFA._all_closures
_all_closures(A, cur) == _e_closures(A, cur)

\* Mutant of NFA_access: the test "value not in self.inputs" is left out.
NFAAccessNoInputTest(A, cur, value) ==
    Ok(UNION {Forward(A, state, value) : state \in cur})

\* Mutant of NFA_access: with no successor the current states are kept.
NFAAccessStay(A, cur, value) ==
    IF value \notin A.inputs THEN Err(InvalidInput)
    ELSE LET old_currents == UNION {Forward(A, state, value) : state \in cur}
         IN  IF old_currents = {} THEN Ok(cur) ELSE Ok(old_currents)

\* NFA._access: the successors of the current states on value, each
\* resolved to a state of the automaton.
NFA_access(A, cur, value) ==
    IF value \notin A.inputs THEN Err(InvalidInput)
    ELSE LET old_currents == UNION {Forward(A, state, value) : state \in cur}
         IN  IF old_currents \subseteq NameSet(A) THEN Ok(old_currents)
             ELSE Err(KeyError)

\* Mutant of EPSILON_NFA_access: the closures of the successors are not taken.
EpsilonAccessNoClosure(A, cur, value) == NFA_access(A, cur, value)

\* EPSILON_NFA._access
EPSILON_NFA_access(A, cur, value) ==
    LET r == NFA_access(A, cur, value)
    IN  IF r.err # "" THEN r ELSE Ok(_all_closures(A, r.val))

\* EPSILON_NFA._process for one entry
EPSILON_NFA_process(A, cur, value) ==
    EPSILON_NFA_access(A, _all_closures(A, cur), value)

\* self.current when EPSILON_NFA._process returns or raises: _process
\* assigns the closures before NFA._access tests the value.
EPSILON_NFA_process_current(A, cur, value) ==
    LET r == EPSILON_NFA_process(A, cur, value)
    IN  IF r.err # "" THEN _all_closures(A, cur) ELSE r.val

\* FiniteAutomaton.enter
enter(A, cur, value) == EPSILON_NFA_process(A, cur, value)

\* FiniteAutomaton.reset for the epsilon-NFA
reset(A, cur) == _e_closures(A, {A.start})

\* FiniteAutomaton.accepted
accepted(A, cur) == cur \cap A.accepted # {}

\* RegEx.valid_characters
valid_characters(A) == A.inputs

\* Mutant of CheckLoop: the test "char in self.valid_characters" is left out.
RECURSIVE CheckLoopNoGuard(_, _, _, _, _)
CheckLoopNoGuard(A, cur, t, i, ent) ==
    IF i > Len(t)
    THEN [is_ok |-> accepted(A, cur), current |-> cur, entered |-> ent, err |-> ""]
    ELSE LET r == enter(A, cur, t[i])
         IN  IF r.err # ""
             THEN [is_ok |-> FALSE, current |-> cur, entered |-> ent, err |-> r.err]
             ELSE CheckLoopNoGuard(A, r.val, t, i + 1, Append(ent, t[i]))

\* RegEx.check: the loop over the characters of t from index i, ent the
\* characters entered into the automaton so far.
RECURSIVE CheckLoop(_, _, _, _, _)
CheckLoop(A, cur, t, i, ent) ==
    IF i > Len(t)
    THEN [is_ok |-> accepted(A, cur), current |-> cur, entered |-> ent, err |-> ""]
    ELSE IF t[i] \notin valid_characters(A)
    THEN [is_ok |-> FALSE, current |-> cur, entered |-> ent, err |-> ""]
    ELSE LET r == enter(A, cur, t[i])
         IN  IF r.err # ""
             THEN [is_ok |-> FALSE, current |-> cur, entered |-> ent, err |-> r.err]
             ELSE CheckLoop(A, r.val, t, i + 1, Append(ent, t[i]))

\* Mutant of check: self.automaton.reset() is left out.
CheckNoReset(A, cur, t) == CheckLoop(A, cur, t, 1, <<>>)

check(A, cur, t) == CheckLoop(A, reset(A, cur), t, 1, <<>>)

(***************************************************************************)
(* The state machine: RegEx.__init__ step by step (the bracket extraction, *)
(* the passes of the outermost _process call, the root's execute), then    *)
(* any number of RegEx.check calls on the compiled regex.                  *)
(*   text       self._text, the regex text                                 *)
(*   groups     self._groups: the extracted list, then the root operator   *)
(*   group      the local list of the outermost _process call              *)
(*   automaton  self.automaton                                             *)
(*   current    self.automaton.current                                     *)
(*   input      the text of the last check call                            *)
(*   entered    the characters that call passed to automaton.enter         *)
(*   is_ok      the value that call returned                               *)
(*   error      the exception that ended __init__ or check, "" if none     *)
(***************************************************************************)
PatChars == {"a", "b", "(", ")", "\\", "|", "*", "+", "?"}

InputChars == {"a", "b", "$", "(", ")"}

SeqsUpTo(S, n) == UNION {[1..m -> S] : m \in 0..n}

\* Regex texts beyond the exhaustive length: the shapes the parser and the
\* operators treat differently.
ExamplePatterns ==
    {<<"(", "a", "b", ")", "+">>,
     <<"[", "0", "-", "9", "]", "+">>,
     <<"[", "a", "-", "c", "]", "*">>,
     <<"a", "|", "b", "c">>,
     <<"a", "b", "|", "a", "a">>,
     <<"a", "b", "a">>,
     <<"a", "|", "b", "|", "a">>,
     <<"a", "*", "b", "+">>,
     <<"(", "a", "|", "b", ")", "*">>,
     <<"(", "a", "|", "b", ")", "a">>,
     <<"(", "(", "a", ")", "b", ")", "*">>,
     <<"(", "a", ")", "(", "b", ")">>,
     <<"(", "a", "*", ")", "+">>,
     <<"(", "a", "b", ")", "?">>,
     <<"a", "?", "b">>,
     <<"(", "a", "\\", ")", ")">>,
     <<"(", "\\", "(", ")", "a">>,
     <<"a", ")", "b", "(">>,
     <<"(", "a", ")", ")", "(">>,
     <<"\\", "\\", "a">>,
     <<"\\", "\\", "\\", "\\">>,
     <<"a", "\\", "\\", "b">>,
     <<"\\", "a", "\\", "b">>,
     <<"[", "a", "-", "a", "]">>,
     <<"[", "a", "-", "b", "]", "[", "0", "-", "1", "]">>,
     <<"[", "a", "-", "b", "]", "[", "b", "]">>,
     <<"a", "-", "b", "[", "a", "]">>,
     <<"[", "b", "]", "[", "a", "-", "b", "]">>,
     <<"[", "a", "-", "b", "]", "a", "[", "0", "-", "1", "]">>,
     <<"[", "b", "-", "a", "]">>,
     <<"(", ")">>, <<"a", "(", ")">>, <<"(", "(", ")", ")">>}

\* The characters of a collation and one ordinary character.
ColChars == {"[", "-", "]", "a"}

Patterns ==
    SeqsUpTo(PatChars, MaxPatLen) \cup SeqsUpTo(ColChars, MaxColLen) \cup ExamplePatterns

ExampleInputs ==
    {<<"a", "b", "a", "b">>, <<"a", "a", "a", "a">>, <<"a", "b", "a">>,
     <<"0">>, <<"1", "9">>, <<"1", "a">>, <<"a", "c", "b">>, <<"\\">>,
     <<"\\", "a">>, <<"b", "0">>, <<"c">>, <<"z">>, <<"A">>}

Inputs == SeqsUpTo(InputChars, MaxInputLen) \cup ExampleInputs

\* The texts of the check calls that follow the first one on a regex.
LaterInputs == SeqsUpTo({"a", "$"}, MaxLaterLen)

NoAutomaton == Factory(<<>>, {}, {}, Name("none"), {})

\* No closure computation and no lexer is in use.
AuxIdle ==
    /\ accumulator = {}
    /\ call = <<>>
    /\ lex = <<>>

\* No pushdown automaton is in use.
PdaIdle ==
    /\ pda = <<>>
    /\ entry = <<>>
    /\ ppc = "idle"
    /\ trail = <<>>

Init ==
    /\ text \in Patterns
    /\ pc = "new"
    /\ groups = <<>>
    /\ group = <<>>
    /\ automaton = NoAutomaton
    /\ current = {}
    /\ input = <<>>
    /\ entered = <<>>
    /\ is_ok = FALSE
    /\ error = ""
    /\ before = {}
    /\ PdaIdle
    /\ AuxIdle

\* An exception leaves __init__: "raised" out of the parser,
\* "execute_raised" out of the root's execute.
Raise(to, e) ==
    /\ pc' = to
    /\ error' = e
    /\ UNCHANGED <<text, groups, group, automaton, current, input, entered, is_ok,
                   before>>
    /\ UNCHANGED <<pdaVars, auxVars>>

\* self._groups = self._extract_bracket(text)
ExtractBracket ==
    /\ pc = "new"
    /\ LET r == _extract_bracket(text)
       IN  IF r.err # "" THEN Raise("raised", r.err)
           ELSE /\ pc' = "extracted"
                /\ groups' = r.val
                /\ UNCHANGED <<text, group, automaton, current, input, entered,
                               is_ok, error, before>>
                /\ UNCHANGED <<pdaVars, auxVars>>

\* One pass of the outermost _process call: group = r, the pass's result.
Pass(from, to, r) ==
    /\ pc = from
    /\ IF r.err # "" THEN Raise("raised", r.err)
       ELSE /\ pc' = to
            /\ group' = r.val
            /\ UNCHANGED <<text, groups, automaton, current, input, entered,
                           is_ok, error, before>>
            /\ UNCHANGED <<pdaVars, auxVars>>

EscapeCharacters == Pass("extracted", "escaped", _escape_characters(groups))

Collate == Pass("escaped", "collated", _collate(group))

ProcessSublists == Pass("collated", "sublists", _process_sublists(group))

ToUnaryOperators == Pass("sublists", "unary", _to_unary_operators(group))

Concatenate == Pass("unary", "concatenated", _concatenate(group))

Alternate == Pass("concatenated", "alternated", _alternate(group))

Clean == Pass("alternated", "cleaned", _clean(group))

\* The end of _process: self._groups = group[0], or the parse error.
ProcessReturn ==
    /\ pc = "cleaned"
    /\ LET r == ProcessResult(group)
       IN  IF r.err # "" THEN Raise("raised", r.err)
           ELSE /\ pc' = "processed"
                /\ groups' = r.val
                /\ UNCHANGED <<text, group, automaton, current, input, entered,
                               is_ok, error, before>>
                /\ UNCHANGED <<pdaVars, auxVars>>

\* self.automaton = self._groups.execute().  The automaton starts in the
\* configuration reset restores.
Execute ==
    /\ pc = "processed"
    /\ LET r == execute(groups)
       IN  IF r.err # "" THEN Raise("execute_raised", r.err)
           ELSE /\ pc' = "compiled"
                /\ automaton' = r.val
                /\ current' = reset(r.val, {})
                /\ UNCHANGED <<text, groups, group, input, entered, is_ok, error,
                               before>>
                /\ UNCHANGED <<pdaVars, auxVars>>

\* RegEx.check(t), on a compiled regex, any number of times; before is the
\* current set the call finds.
Check ==
    /\ pc \in {"compiled", "checked"}
    /\ \E t \in (IF pc = "compiled" THEN Inputs ELSE LaterInputs) :
         LET r == check(automaton, current, t)
         IN  /\ pc' = IF r.err # "" THEN "check_raised" ELSE "checked"
             /\ input' = t
             /\ entered' = r.entered
             /\ is_ok' = r.is_ok
             /\ current' = r.current
             /\ error' = r.err
             /\ before' = current
             /\ UNCHANGED <<text, groups, group, automaton>>
             /\ UNCHANGED <<pdaVars, auxVars>>

\* The symbols a caller enters into the automaton of a compiled regex.
EnterSymbols == {"a", "b", "$"}

\* self.automaton.enter(value) by a caller that holds the compiled regex and
\* catches the exception; before is the current set at the call.
Enter ==
    /\ pc \in {"compiled", "entered", "enter_raised", "reset"}
    /\ \E value \in EnterSymbols :
         LET r == enter(automaton, current, value)
         IN  /\ pc' = IF r.err # "" THEN "enter_raised" ELSE "entered"
             /\ input' = <<value>>
             /\ before' = current
             /\ current' = EPSILON_NFA_process_current(automaton, current, value)
             /\ is_ok' = accepted(automaton, current')
             /\ error' = r.err
             /\ UNCHANGED <<text, groups, group, automaton, entered>>
             /\ UNCHANGED <<pdaVars, auxVars>>

\* self.automaton.reset() by that caller
Reset ==
    /\ pc \in {"entered", "enter_raised"}
    /\ pc' = "reset"
    /\ before' = current
    /\ current' = reset(automaton, current)
    /\ is_ok' = accepted(automaton, current')
    /\ UNCHANGED <<text, groups, group, automaton, input, entered, error>>
    /\ UNCHANGED <<pdaVars, auxVars>>

Next ==
    \/ ExtractBracket
    \/ EscapeCharacters
    \/ Collate
    \/ ProcessSublists
    \/ ToUnaryOperators
    \/ Concatenate
    \/ Alternate
    \/ Clean
    \/ ProcessReturn
    \/ Execute
    \/ Check
    \/ Enter
    \/ Reset

Spec == Init /\ [][Next]_vars

(***************************************************************************)
(* The pushdown automaton (automata/pda.py).  pda holds the fields of a    *)
(* DeterministicPDA:                                                       *)
(*   delta            the transitions: <<state, input, top>> |-> NoMove or *)
(*                    [to, push], push the sequence to push, in which the  *)
(*                    empty symbol is a placeholder                        *)
(*   start_state, accepted_states, start_symbol                            *)
(*   current          the current state, FailedState after a failure       *)
(*   stack            the stack, its top at the end                        *)
(*   processed_all    the flag of that name                                *)
(* entry is the rest of the list _process works on, ppc the position of    *)
(* the caller and of _process:                                             *)
(*   "ready"  constructed or reset, no call running                        *)
(*   "loop"   at the test of "while len(entry) > 0"                        *)
(*   "tail"   at the test of "while (not self.accepted) and ..."           *)
(*   "done"   _process has returned                                        *)
(* trail records the call for the properties: total the length of the      *)
(* entry at the call, fired the input symbols consumed by a transition     *)
(* that fired, failed whether a step entered the failure state, late the   *)
(* steps made on an input symbol with the failure state as current state,  *)
(* calls the calls since the construction or the last reset, op the last   *)
(* operation, pre the automaton and left the length of the entry before    *)
(* it, value the symbol given to it, go_on what it returned, odd whether   *)
(* the loops have made an odd number of iterations.                        *)
(***************************************************************************)
PdaStates == {"q0", "q1"}

\* st.PushState('fail', 0, epsilon = empty_symbol)
FailedState == "fail"

\* empty_symbol = '$'
EmptySymbol == "$"

StartSymbol == "Z"

NoMove == [to |-> "none", push |-> <<>>]

\* The transitions of the automata of the model: on the input a or on the
\* empty symbol, with the start symbol on top.  A move on the empty symbol
\* pushes at most what it popped.
InputMoves ==
    {NoMove} \cup [to : PdaStates, push : {<<"$">>, <<"Z">>, <<"Z", "$", "Z">>}]

EpsilonMoves == {NoMove} \cup [to : PdaStates, push : {<<"$">>, <<"Z">>}]

PdaKeys == {<<q, i, StartSymbol>> : q \in PdaStates, i \in {"a", EmptySymbol}}

Deltas ==
    {d \in [PdaKeys -> InputMoves] :
        \A key \in PdaKeys : key[2] = EmptySymbol => d[key] \in EpsilonMoves}

\* DeterministicPDA.__init__, with DFA.__init__ leaving the start state as
\* the current state
NewPDA(delta) ==
    [delta |-> delta, start_state |-> "q0", accepted_states |-> {"q1"},
     start_symbol |-> StartSymbol, current |-> "q0", stack |-> <<StartSymbol>>,
     processed_all |-> TRUE]

\* PushState.clean_forward(InputPack(value, symbol)): the move of the state
\* for the pack, NoMove for the empty set.
clean_forward(p, state, value, symbol) ==
    IF <<state, value, symbol>> \in DOMAIN p.delta THEN p.delta[<<state, value, symbol>>]
    ELSE NoMove

\* Stack.exclude(empty_symbol)
exclude(push, symbol) == SelectSeq(push, LAMBDA x : x # symbol)

\* Stack.pop: the stack without its top
Popped(stack) == SubSeq(stack, 1, Len(stack) - 1)

Top(stack) == stack[Len(stack)]

\* self.stack += sequence
Pushed(stack, sequence) == stack \o sequence

\* DeterministicPDA.accepted
PDA_accepted(p) ==
    IF p.processed_all THEN p.current \in p.accepted_states ELSE FALSE

\* Mutant of PDA_reset: self.stack.clear() is left out.
PDAResetNoClear(p) ==
    [p EXCEPT !.current = p.start_state, !.processed_all = TRUE,
              !.stack = Pushed(p.stack, <<p.start_symbol>>)]

\* DeterministicPDA.reset, with DFA.reset setting the start state
PDA_reset(p) ==
    [p EXCEPT !.current = p.start_state, !.processed_all = TRUE,
              !.stack = <<p.start_symbol>>]

\* Mutant of PDA_access: the move on the input value is tried first.
PDAAccessInputFirst(p, value) ==
    IF Len(p.stack) = 0
    THEN [pda |-> [p EXCEPT !.current = FailedState], go_on |-> TRUE]
    ELSE LET symbol == Top(p.stack)
             on_value == clean_forward(p, p.current, value, symbol)
             on_empty == clean_forward(p, p.current, EmptySymbol, symbol)
             move == IF on_value # NoMove THEN on_value ELSE on_empty
         IN  IF move = NoMove
             THEN [pda |-> [p EXCEPT !.current = FailedState, !.stack = Popped(p.stack)],
                   go_on |-> TRUE]
             ELSE [pda |-> [p EXCEPT !.current = move.to,
                                     !.stack = Pushed(Popped(p.stack),
                                                      exclude(move.push, EmptySymbol))],
                   go_on |-> on_value # NoMove]

\* DeterministicPDA._access: [pda, go_on]
PDA_access(p, value) ==
    IF Len(p.stack) = 0
    THEN [pda |-> [p EXCEPT !.current = FailedState], go_on |-> TRUE]
    ELSE LET symbol == Top(p.stack)
             on_empty == clean_forward(p, p.current, EmptySymbol, symbol)
             on_value == clean_forward(p, p.current, value, symbol)
             move == IF on_empty # NoMove THEN on_empty ELSE on_value
         IN  IF move = NoMove
             THEN [pda |-> [p EXCEPT !.current = FailedState, !.stack = Popped(p.stack)],
                   go_on |-> TRUE]
             ELSE [pda |-> [p EXCEPT !.current = move.to,
                                     !.stack = Pushed(Popped(p.stack),
                                                      exclude(move.push, EmptySymbol))],
                   go_on |-> on_empty = NoMove]

\* DeterministicPDA._access_epsilon: [pda, go_on]
_access_epsilon(p) ==
    IF Len(p.stack) = 0 THEN [pda |-> p, go_on |-> FALSE]
    ELSE LET symbol == Top(p.stack)
             move == clean_forward(p, p.current, EmptySymbol, symbol)
         IN  IF move = NoMove
             THEN [pda |-> [p EXCEPT !.stack = Popped(p.stack)], go_on |-> FALSE]
             ELSE [pda |-> [p EXCEPT !.current = move.to,
                                     !.stack = Pushed(Popped(p.stack),
                                                      exclude(move.push, EmptySymbol))],
                   go_on |-> TRUE]

\* Mutant of LoopIteration: the test for the failure state is left out.
LoopIterationNoFailTest(p, e) ==
    LET r == PDA_access(p, Head(e))
    IN  [pda |-> r.pda, entry |-> IF r.go_on THEN Tail(e) ELSE e, ppc |-> "loop",
         go_on |-> r.go_on, accessed |-> TRUE]

\* One iteration of "while len(entry) > 0" in DeterministicPDA._process, for
\* a non-empty rest e of the entry.
LoopIteration(p, e) ==
    IF p.current = FailedState
    THEN [pda |-> [p EXCEPT !.processed_all = FALSE], entry |-> e, ppc |-> "done",
          go_on |-> FALSE, accessed |-> FALSE]
    ELSE LET r == PDA_access(p, Head(e))
         IN  [pda |-> r.pda, entry |-> IF r.go_on THEN Tail(e) ELSE e, ppc |-> "loop",
              go_on |-> r.go_on, accessed |-> TRUE]

\* the longest entry of a _process call
MaxEntryLen == 2
\* the longest entry of a _process call that follows another without a reset
MaxLaterEntryLen == 1
\* the most _process calls without a reset between them
MaxCalls == 2

Entries == SeqsUpTo({"a", "b"}, MaxEntryLen)

LaterEntries == SeqsUpTo({"a"}, MaxLaterEntryLen)

NoTrail ==
    [calls |-> 0, total |-> 0, fired |-> 0, failed |-> FALSE, late |-> 0, op |-> "none",
     pre |-> NewPDA([key \in PdaKeys |-> NoMove]), left |-> 0, value |-> "",
     go_on |-> FALSE, odd |-> FALSE]

\* No regex is in use.
RegExIdle ==
    /\ text = <<>>
    /\ pc = "idle"
    /\ groups = <<>>
    /\ group = <<>>
    /\ automaton = NoAutomaton
    /\ current = {}
    /\ input = <<>>
    /\ entered = <<>>
    /\ is_ok = FALSE
    /\ error = ""
    /\ before = {}

regexVars ==
    <<text, pc, groups, group, automaton, current, input, entered, is_ok, error, before>>

PdaInit ==
    /\ RegExIdle
    /\ pda \in {NewPDA(delta) : delta \in Deltas}
    /\ entry = <<>>
    /\ ppc = "ready"
    /\ trail = NoTrail
    /\ AuxIdle

\* enter(*e): _process(*e) starts, entry = list(entry)
ProcessCall ==
    /\ ppc \in {"ready", "done"}
    /\ trail.calls < MaxCalls
    /\ \E e \in (IF ppc = "ready" THEN Entries ELSE LaterEntries) :
         /\ entry' = e
         /\ trail' = [NoTrail EXCEPT !.calls = trail.calls + 1, !.total = Len(e),
                                     !.op = "call", !.pre = pda]
    /\ ppc' = "loop"
    /\ UNCHANGED pda
    /\ UNCHANGED <<regexVars, auxVars>>

\* One iteration of the loop over the entry.
LoopIterate ==
    /\ ppc = "loop"
    /\ Len(entry) > 0
    /\ LET r == LoopIteration(pda, entry)
       IN  /\ pda' = r.pda
           /\ entry' = r.entry
           /\ ppc' = r.ppc
           /\ trail' = [trail EXCEPT
                  !.op = IF r.accessed THEN "access" ELSE "break",
                  !.pre = pda,
                  !.odd = ~@,
                  !.left = Len(entry),
                  !.value = Head(entry),
                  !.go_on = r.go_on,
                  !.fired = IF r.accessed /\ r.go_on /\ r.pda.current # FailedState
                            THEN @ + 1 ELSE @,
                  !.failed = @ \/ r.pda.current = FailedState,
                  !.late = IF r.accessed /\ pda.current = FailedState THEN @ + 1 ELSE @]
    /\ UNCHANGED <<regexVars, auxVars>>

\* The loop over the entry ends: "if self.processed_all" leads to the
\* epsilon steps or to the return.
LoopEnd ==
    /\ ppc = "loop"
    /\ Len(entry) = 0
    /\ ppc' = IF pda.processed_all THEN "tail" ELSE "done"
    /\ trail' = [trail EXCEPT !.op = "end", !.pre = pda]
    /\ UNCHANGED <<pda, entry>>
    /\ UNCHANGED <<regexVars, auxVars>>

\* One test of "while (not self.accepted) and self._access_epsilon()".
TailIterate ==
    /\ ppc = "tail"
    /\ IF PDA_accepted(pda)
       THEN /\ ppc' = "done"
            /\ trail' = [trail EXCEPT !.op = "accepted", !.pre = pda]
            /\ UNCHANGED pda
       ELSE LET r == _access_epsilon(pda)
            IN  /\ pda' = r.pda
                /\ ppc' = IF r.go_on THEN "tail" ELSE "done"
                /\ trail' = [trail EXCEPT !.op = "epsilon", !.pre = pda,
                                          !.odd = ~@, !.go_on = r.go_on]
    /\ UNCHANGED entry
    /\ UNCHANGED <<regexVars, auxVars>>

\* reset() after a call or after a reset
PdaReset ==
    /\ ppc = "done" \/ (ppc = "ready" /\ trail.op = "reset")
    /\ pda' = PDA_reset(pda)
    /\ ppc' = "ready"
    /\ entry' = <<>>
    /\ trail' = [NoTrail EXCEPT !.op = "reset", !.pre = pda]
    /\ UNCHANGED <<regexVars, auxVars>>

PdaNext ==
    \/ ProcessCall
    \/ LoopIterate
    \/ LoopEnd
    \/ TailIterate
    \/ PdaReset

PdaSpec == PdaInit /\ [][PdaNext]_vars

\* _process runs on: a loop takes its next iteration.
PdaFairSpec == PdaSpec /\ WF_vars(LoopIterate \/ LoopEnd \/ TailIterate)

(***************************************************************************)
(* A closure computation (automata/nfa.py), step by step: the states of    *)
(* the argument tuple and the successors of a state are met in any order.  *)
(*   automaton    the automaton                                            *)
(*   accumulator  the default value of _e_closure's parameter closure:     *)
(*                one set object for all the calls that leave it out       *)
(*   call         the _e_closures call: pc; states, its arguments; todo,   *)
(*                the arguments its loop has not reached; currents; stack, *)
(*                the running _e_closure calls, the innermost last, each   *)
(*                with its state and the successors its loop has not       *)
(*                reached; calls, the _e_closure calls made so far         *)
(***************************************************************************)
ClosureStates == <<Name("q0"), Name("q1"), Name("q2")>>

\* the most epsilon-transitions of an automaton
MaxEpsilonMoves == 3

\* Automata over three states: any epsilon-transitions, cycles and loops
\* among them, and one transition on a.
ClosureAutomata ==
    {Factory(ClosureStates, {"a"}, {Name("q2")}, Name("q0"),
             d \cup {<<Name("q0"), "a", Name("q2")>>}) :
        d \in {e \in SUBSET {<<s, Epsilon, t>> : s \in {ClosureStates[i] : i \in 1..3},
                                                   t \in {ClosureStates[i] : i \in 1..3}} :
                   Cardinality(e) <= MaxEpsilonMoves}}

NoCall ==
    [pc |-> "idle", states |-> {}, todo |-> {}, currents |-> {}, stack |-> <<>>,
     calls |-> 0]

\* _e_closure(state, closure) is entered: closure |= {state}, then the loop
\* over state.forward(self._epsilon).
EClosureEnter(c, A, state) ==
    [c EXCEPT !.currents = @ \cup {state},
              !.stack = Append(@, [state |-> state, todo |-> Forward(A, state, Epsilon)]),
              !.calls = @ + 1]

\* Mutant of EClosureVisit: the successor is added, its own successors are
\* not followed.
EClosureVisitFlat(c, A, eps) == [c EXCEPT !.currents = @ \cup {eps}]

\* One iteration of the loop of _e_closure: "if eps not in closure" the
\* recursive call.
EClosureVisit(c, A, eps) ==
    IF eps \notin c.currents THEN EClosureEnter(c, A, eps) ELSE c

ClosureInit ==
    /\ text = <<>>
    /\ pc = "idle"
    /\ groups = <<>>
    /\ group = <<>>
    /\ automaton \in ClosureAutomata
    /\ current = {}
    /\ input = <<>>
    /\ entered = <<>>
    /\ is_ok = FALSE
    /\ error = ""
    /\ before = {}
    /\ PdaIdle
    /\ accumulator = {}
    /\ call = NoCall
    /\ lex = <<>>

\* _e_closures(*states) is called: currents = set(states)
EClosuresCall ==
    /\ call.pc \in {"idle", "returned"}
    /\ \E states \in SUBSET NameSet(automaton) :
         call' = [NoCall EXCEPT !.pc = "loop", !.states = states, !.todo = states,
                                !.currents = states]
    /\ UNCHANGED <<regexVars, pdaVars, accumulator, lex>>

\* "for i in states": self._e_closure(i, currents) is called
EClosuresIterate ==
    /\ call.pc = "loop"
    /\ call.stack = <<>>
    /\ \E i \in call.todo :
         call' = EClosureEnter([call EXCEPT !.todo = @ \ {i}], automaton, i)
    /\ UNCHANGED <<regexVars, pdaVars, accumulator, lex>>

\* "for eps in state.forward(self._epsilon)" in the innermost call
EClosureStep ==
    /\ call.pc = "loop"
    /\ call.stack # <<>>
    /\ \E eps \in call.stack[Len(call.stack)].todo :
         call' = EClosureVisit([call EXCEPT !.stack[Len(call.stack)].todo = @ \ {eps}],
                               automaton, eps)
    /\ UNCHANGED <<regexVars, pdaVars, accumulator, lex>>

\* "return closure" in the innermost call; in _e_closures the set returned
\* is currents itself.
EClosureReturn ==
    /\ call.pc = "loop"
    /\ call.stack # <<>>
    /\ call.stack[Len(call.stack)].todo = {}
    /\ call' = [call EXCEPT !.stack = SubSeq(@, 1, Len(@) - 1)]
    /\ UNCHANGED <<regexVars, pdaVars, accumulator, lex>>

\* "return currents"
EClosuresReturn ==
    /\ call.pc = "loop"
    /\ call.stack = <<>>
    /\ call.todo = {}
    /\ call' = [call EXCEPT !.pc = "returned"]
    /\ UNCHANGED <<regexVars, pdaVars, accumulator, lex>>

\* _e_closure(state) between two _e_closures calls, with the parameter
\* closure left out: the default set is used and keeps what is added to it.
EClosureDefault ==
    /\ call.pc \in {"idle", "returned"}
    /\ \E state \in NameSet(automaton) :
         accumulator' = _e_closure(automaton, state, accumulator)
    /\ UNCHANGED <<regexVars, pdaVars, call, lex>>

ClosureNext ==
    \/ EClosuresCall
    \/ EClosuresIterate
    \/ EClosureStep
    \/ EClosureReturn
    \/ EClosuresReturn
    \/ EClosureDefault

\* A call runs on: a loop takes its next iteration and a call that has
\* finished its loop returns.
ClosureFairSpec ==
    /\ ClosureInit
    /\ [][ClosureNext]_vars
    /\ WF_vars(EClosuresIterate \/ EClosureStep \/ EClosureReturn \/ EClosuresReturn)

(***************************************************************************)
(* The lexer (grammar/lexers.py).  lex holds a Lexer and its scan call:    *)
(*   regexes        self._regexes, each a compiled RegEx: its name, its    *)
(*                  automaton and the automaton's current set              *)
(*   text           the text passed to the outermost scan call             *)
(*   offset         where the text of the running call begins in it: a     *)
(*                  call on text[i:] runs offset + i further to the right  *)
(*   depth          the number of scan calls that wait for the running one *)
(*   i, start_index, current_regex   the locals of the running call;      *)
(*                  current_regex is an index into regexes, 0 for None     *)
(*   tokens         the tokens appended so far, in the order in which the  *)
(*                  returns of the waiting calls join them; a token is     *)
(*                  kept with the place of its value in text (from, to)    *)
(***************************************************************************)
\* RegEx(t, name), for a text that compiles
RegEx(t, name) ==
    LET compiled == execute(_process(_extract_bracket(t).val).val).val
    IN  [name |-> name, automaton |-> compiled, current |-> reset(compiled, {})]

\* The regexes a lexer is made of.
LexerRegexes ==
    {RegEx(<<"a">>, "A"), RegEx(<<"a", "b">>, "AB"), RegEx(<<"b", "+">>, "BS"),
     RegEx(<<"a", "*">>, "AS")}

\* the most regexes of a lexer
MaxRegexes == 2
\* the longest text scanned
MaxScanLen == 3
\* the longest text of a scan that follows another on the same lexer
MaxLaterScanLen == 1

\* Lexer(*regexes): distinct RegEx objects in any order
Lexers ==
    {rs \in UNION {[1..m -> LexerRegexes] : m \in 0..MaxRegexes} :
        \A j \in DOMAIN rs, k \in DOMAIN rs : rs[j] = rs[k] => j = k}

ScanTexts == SeqsUpTo({"a", "b", "c"}, MaxScanLen)

LaterScanTexts == SeqsUpTo({"a", "c"}, MaxLaterScanLen)

\* regexes[k].check(t): the regexes after the call
AfterCheck(rs, k, t) ==
    [rs EXCEPT ![k].current = check(rs[k].automaton, rs[k].current, t).current]

\* regexes[k].check(t): the value returned
CheckOf(rs, k, t) == check(rs[k].automaton, rs[k].current, t).is_ok

\* "for regex in self._regexes" with no token begun, from the k-th regex:
\* found is the regex that accepts char, 0 if none does.
RECURSIVE StartLoop(_, _, _)
StartLoop(rs, k, char) ==
    IF k > Len(rs) THEN [regexes |-> rs, found |-> 0]
    ELSE IF CheckOf(rs, k, <<char>>)
    THEN [regexes |-> AfterCheck(rs, k, <<char>>), found |-> k]
    ELSE StartLoop(AfterCheck(rs, k, <<char>>), k + 1, char)

\* Mutant of ContinueLoop: "regex.check(text[start_index:i + 1])" is left
\* out of the first test.
RECURSIVE ContinueLoopNoCheck(_, _, _, _)
ContinueLoopNoCheck(rs, k, sub, cur) ==
    IF k > Len(rs)
    THEN [regexes |-> rs, current_regex |-> cur, continue_flag |-> FALSE]
    ELSE IF k # cur
    THEN [regexes |-> rs, current_regex |-> k, continue_flag |-> TRUE]
    ELSE IF CheckOf(rs, cur, sub)
    THEN [regexes |-> AfterCheck(rs, cur, sub), current_regex |-> cur,
          continue_flag |-> TRUE]
    ELSE ContinueLoopNoCheck(AfterCheck(rs, cur, sub), k + 1, sub, cur)

\* "for regex in self._regexes" with a token begun, from the k-th regex,
\* sub = text[start_index:i + 1] and cur the current regex.
RECURSIVE ContinueLoop(_, _, _, _)
ContinueLoop(rs, k, sub, cur) ==
    IF k > Len(rs)
    THEN [regexes |-> rs, current_regex |-> cur, continue_flag |-> FALSE]
    ELSE IF CheckOf(rs, k, sub) /\ k # cur
    THEN [regexes |-> AfterCheck(rs, k, sub), current_regex |-> k,
          continue_flag |-> TRUE]
    ELSE IF CheckOf(AfterCheck(rs, k, sub), cur, sub)
    THEN [regexes |-> AfterCheck(AfterCheck(rs, k, sub), cur, sub),
          current_regex |-> cur, continue_flag |-> TRUE]
    ELSE ContinueLoop(AfterCheck(AfterCheck(rs, k, sub), cur, sub), k + 1, sub, cur)

\* Token(token_type, token_value), with the place of the value in the text
Token(token_type, token_value, from, to) ==
    [token_type |-> token_type, token_value |-> token_value, from |-> from, to |-> to]

\* The text of the running scan call.
ScanText(l) == PySlice(l.text, l.offset, Len(l.text))

\* The locals of a scan call as it begins.
ScanBegin(l) ==
    [l EXCEPT !.i = 0, !.start_index = -1, !.current_regex = 0]

\* The body of "for i, char in enumerate(text)" with no token begun.
ScanStart(l) ==
    LET r == StartLoop(l.regexes, 1, PyGet(ScanText(l), l.i))
    IN  [l EXCEPT !.regexes = r.regexes,
                  !.start_index = IF r.found # 0 THEN l.i ELSE @,
                  !.current_regex = IF r.found # 0 THEN r.found ELSE @,
                  !.i = @ + 1]

\* The body of the loop with a token begun: the token goes on, or it is
\* appended and scan(text[i:]) is called.
ScanContinue(l) ==
    LET r == ContinueLoop(l.regexes, 1, PySlice(ScanText(l), l.start_index, l.i + 1),
                          l.current_regex)
    IN  IF r.continue_flag
        THEN [l EXCEPT !.regexes = r.regexes, !.current_regex = r.current_regex,
                       !.i = @ + 1]
        ELSE ScanBegin(
                 [l EXCEPT !.regexes = r.regexes,
                           !.tokens = Append(@,
                               Token(r.regexes[r.current_regex].name,
                                     PySlice(ScanText(l), l.start_index, l.i),
                                     l.offset + l.start_index, l.offset + l.i)),
                           !.offset = @ + l.i,
                           !.depth = @ + 1])

\* The end of the loop: the token begun is appended, the call and the calls
\* that wait for it return.
ScanEnd(l) ==
    [l EXCEPT !.pc = "returned",
              !.tokens = IF l.start_index # -1 /\ l.current_regex # 0
                         THEN Append(@,
                                  Token(l.regexes[l.current_regex].name,
                                        PySlice(ScanText(l), l.start_index,
                                                Len(ScanText(l))),
                                        l.offset + l.start_index, Len(l.text)))
                         ELSE @]

NewLexer(rs) ==
    [regexes |-> rs, text |-> <<>>, pc |-> "ready", offset |-> 0, depth |-> 0, i |-> 0,
     start_index |-> -1, current_regex |-> 0, tokens |-> <<>>]

LexInit ==
    /\ RegExIdle
    /\ PdaIdle
    /\ accumulator = {}
    /\ call = <<>>
    /\ lex \in {NewLexer(rs) : rs \in Lexers}

\* scan(text) is called on the lexer
ScanCall ==
    /\ lex.pc \in {"ready", "returned"}
    /\ \E t \in (IF lex.pc = "ready" THEN ScanTexts ELSE LaterScanTexts) :
         lex' = ScanBegin([NewLexer(lex.regexes) EXCEPT !.text = t, !.pc = "scanning"])
    /\ UNCHANGED <<regexVars, pdaVars, accumulator, call>>

\* One iteration of "for i, char in enumerate(text)"
ScanIterate ==
    /\ lex.pc = "scanning"
    /\ lex.i < Len(ScanText(lex))
    /\ lex' = IF lex.start_index = -1 THEN ScanStart(lex) ELSE ScanContinue(lex)
    /\ UNCHANGED <<regexVars, pdaVars, accumulator, call>>

\* The loop is over: "return tokens"
ScanReturn ==
    /\ lex.pc = "scanning"
    /\ lex.i >= Len(ScanText(lex))
    /\ lex' = ScanEnd(lex)
    /\ UNCHANGED <<regexVars, pdaVars, accumulator, call>>

LexNext ==
    \/ ScanCall
    \/ ScanIterate
    \/ ScanReturn

LexSpec == LexInit /\ [][LexNext]_vars

(***************************************************************************)
(* Reference semantics, independent of the automata: the language an       *)
(* operator tree denotes.                                                  *)
(***************************************************************************)
RECURSIVE InLang(_, _)
InLang(x, s) ==
    CASE x.k = "chr" -> s = <<x.c>>
      [] x.k = "Single" -> InLang(x.item, s)
      [] x.k = "Collation" ->
            Len(s) = 1 /\ Ord(x.first.c) <= Ord(s[1]) /\ Ord(s[1]) <= Ord(x.last.c)
      [] x.k = "Alternation" -> InLang(x.first, s) \/ InLang(x.last, s)
      [] x.k = "Concatenation" ->
            \E i \in 0..Len(s) :
                InLang(x.first, SubSeq(s, 1, i)) /\ InLang(x.last, SubSeq(s, i + 1, Len(s)))
      [] x.k = "KleeneStar" ->
            \/ s = <<>>
            \/ \E i \in 1..Len(s) :
                InLang(x.item, SubSeq(s, 1, i)) /\ InLang(x, SubSeq(s, i + 1, Len(s)))
      [] x.k = "KleenePlus" ->
            \/ InLang(x.item, s)
            \/ \E i \in 1..(Len(s) - 1) :
                InLang(x.item, SubSeq(s, 1, i)) /\ InLang(x, SubSeq(s, i + 1, Len(s)))
      [] x.k = "QuestionMark" -> s = <<>> \/ InLang(x.item, s)

\* The least set that contains S and is closed under the epsilon-transitions.
RECURSIVE EpsilonReach(_, _)
EpsilonReach(A, S) ==
    LET T == S \cup {d[3] : d \in {e \in A.delta : e[1] \in S /\ e[2] = Epsilon}}
    IN  IF T = S THEN S ELSE EpsilonReach(A, T)

\* The compiled regex exists (pc is past __init__).
Compiled ==
    pc \in {"compiled", "checked", "check_raised", "entered", "enter_raised", "reset"}

(***************************************************************************)
(* C2: RegEx.check never raises; it returns False at the first character   *)
(* that is not in valid_characters, having entered exactly the characters  *)
(* before it, and otherwise returns the accepted flag after entering       *)
(* every character of the text in order.                                   *)
(***************************************************************************)
InvalidAt(t) == {i \in 1..Len(t) : t[i] \notin valid_characters(automaton)}

FirstIn(S) == CHOOSE i \in S : \A j \in S : i <= j

C2_CheckNeverRaises ==
    /\ pc # "check_raised"
    /\ pc = "checked" =>
         IF InvalidAt(input) = {}
         THEN entered = input /\ is_ok = accepted(automaton, current)
         ELSE entered = SubSeq(input, 1, FirstIn(InvalidAt(input)) - 1) /\ is_ok = FALSE

\* A check that entered a character and then met an invalid one.
C2_Witness ==
    pc = "checked" /\ entered # <<>> /\ Len(entered) < Len(input) /\ is_ok = FALSE

RECURSIVE SubOperators(_)
SubOperators(x) ==
    CASE x.k \in {"chr", "Single", "Collation"} -> {x}
      [] x.k \in {"Alternation", "Concatenation"} ->
            {x} \cup SubOperators(x.first) \cup SubOperators(x.last)
      [] OTHER -> {x} \cup SubOperators(x.item)

UniqueNames(A) ==
    \A i, j \in DOMAIN A.states : A.states[i] = A.states[j] => i = j

Closed(A) ==
    /\ A.start \in NameSet(A)
    /\ A.accepted \subseteq NameSet(A)
    /\ \A d \in A.delta : d[1] \in NameSet(A) /\ d[3] \in NameSet(A)

C4_UniqueNamesClosedTargets ==
    /\ Compiled =>
         /\ UniqueNames(automaton) /\ Closed(automaton)
         /\ \A x \in SubOperators(groups) :
              IsOperator(x) /\ execute(x).err = "" =>
                  UniqueNames(execute(x).val) /\ Closed(execute(x).val)
    /\ ~(pc = "check_raised" /\ error = KeyError)

\* ab: both operands come from the factory text with the names c0 and c1.
C4_Witness ==
    /\ pc = "checked" /\ text = <<"a", "b">> /\ input = <<"a", "b">> /\ is_ok
    /\ Len(automaton.states) = 4

(***************************************************************************)
(* C1: on a text of valid characters, check returns true exactly when the  *)
(* text is in the language of the regex's operator tree.                   *)
(***************************************************************************)
C1_CheckDecidesLanguage ==
    pc = "checked" /\ InvalidAt(input) = {} => is_ok = InLang(groups, input)

(***************************************************************************)
(* C5: QuestionMark(x) executes to an automaton that accepts the empty     *)
(* text and the texts of x and nothing else; for a character c, c is one   *)
(* of its inputs.                                                          *)
(***************************************************************************)
IsRoot(kind) == pc \in {"processed", "compiled", "checked"} /\ groups.k = kind

C5_QuestionMarkLanguage ==
    /\ IsRoot("QuestionMark") /\ IsStr(groups.item) =>
           groups.item.c \in execute(groups).val.inputs
    /\ pc = "checked" /\ IsRoot("QuestionMark") =>
           is_ok = (input = <<>> \/ InLang(groups.item, input))
    /\ ~(pc = "execute_raised" /\ groups.k = "QuestionMark")

(***************************************************************************)
(* C6: KleenePlus(x) executes to an automaton that accepts exactly the     *)
(* texts made of one or more texts its operand's automaton accepts.        *)
(***************************************************************************)
\* The automaton of the operand x, as KleenePlus.execute builds it, accepts s.
OperandAccepts(x, s) == check(Operand(x, "kp0", "kp1").val, {}, s).is_ok

RECURSIVE Repetition(_, _)
Repetition(x, s) ==
    \/ OperandAccepts(x, s)
    \/ \E i \in 1..(Len(s) - 1) :
           OperandAccepts(x, SubSeq(s, 1, i)) /\ Repetition(x, SubSeq(s, i + 1, Len(s)))

C6_KleenePlusLanguage ==
    pc = "checked" /\ IsRoot("KleenePlus") => is_ok = Repetition(groups.item, input)

(***************************************************************************)
(* Reference parser, independent of the list rewriting: the nesting of a   *)
(* text, the escapes of a group and the operator tree of a group.          *)
(***************************************************************************)
\* The items of t from index i up to the parenthesis that closes the group
\* (depth > 0) or to the end of the text (depth = 0).  A backslash escapes
\* the character after it: both stay items of the group they stand in.
\* next is the index of the closing parenthesis.
RECURSIVE RefItems(_, _, _)
RefItems(t, i, depth) ==
    IF i > Len(t) THEN [ok |-> depth = 0, items |-> <<>>, next |-> i]
    ELSE IF t[i] = "\\" /\ i < Len(t)
    THEN LET rest == RefItems(t, i + 2, depth)
         IN  [rest EXCEPT !.items = <<Chr("\\"), Chr(t[i + 1])>> \o rest.items]
    ELSE IF t[i] = "("
    THEN LET sub == RefItems(t, i + 1, depth + 1)
         IN  IF ~sub.ok THEN sub
             ELSE LET rest == RefItems(t, sub.next + 1, depth)
                  IN  [rest EXCEPT !.items = <<Lst(sub.items)>> \o rest.items]
    ELSE IF t[i] = ")"
    THEN [ok |-> depth > 0, items |-> <<>>, next |-> i]
    ELSE LET rest == RefItems(t, i + 1, depth)
         IN  [rest EXCEPT !.items = <<Chr(t[i])>> \o rest.items]

ProperlyNested(t) == RefItems(t, 1, 0).ok

RefGroups(t) == RefItems(t, 1, 0).items

\* A parenthesis of t stands right after a backslash that escapes it.
RECURSIVE HasEscapedParenthesis(_, _)
HasEscapedParenthesis(t, i) ==
    IF i >= Len(t) THEN FALSE
    ELSE IF t[i] = "\\"
    THEN t[i + 1] \in {"(", ")"} \/ HasEscapedParenthesis(t, i + 2)
    ELSE HasEscapedParenthesis(t, i + 1)

\* Escape resolution of the items of g from index i: a backslash and the
\* item after it become one Single of that item.
RECURSIVE RefEscape(_, _)
RefEscape(g, i) ==
    IF i > Len(g) THEN <<>>
    ELSE IF StrEq(g[i], "\\") /\ i < Len(g)
    THEN <<[k |-> "Single", item |-> g[i + 1]]>> \o RefEscape(g, i + 2)
    ELSE <<g[i]>> \o RefEscape(g, i + 1)

Bar == [k |-> "bar"]

NoTree == [k |-> "none"]

\* The operand x with the unary operators of g from index i on applied:
\* the innermost first.
RECURSIVE RefUnary(_, _, _)
RefUnary(g, i, x) ==
    IF i <= Len(g) /\ IsUnaryOperator(g[i])
    THEN RefUnary(g, i + 1, [k |-> unary_operators(g[i].c), item |-> x])
    ELSE [x |-> x, next |-> i]

RECURSIVE RefTree(_)

\* The tokens of g from index i: its operands, each with its unary
\* operators, and the bars between them.
RECURSIVE RefTokens(_, _)
RefTokens(g, i) ==
    IF i > Len(g) THEN [ok |-> TRUE, toks |-> <<>>]
    ELSE
      LET item == g[i]
          atom ==
            IF IsList(item)
            THEN LET sub == RefTree(item.items)
                 IN  [ok |-> sub.ok, x |-> sub.tree, next |-> i + 1]
            ELSE IF ~IsStr(item) THEN [ok |-> TRUE, x |-> item, next |-> i + 1]
            ELSE IF item.c = "\\"
            THEN IF i < Len(g) /\ IsStr(g[i + 1])
                 THEN [ok |-> TRUE, x |-> [k |-> "Single", item |-> g[i + 1]],
                       next |-> i + 2]
                 ELSE [ok |-> FALSE, x |-> NoTree, next |-> i + 1]
            ELSE IF item.c = "["
            THEN IF /\ i + 4 <= Len(g)
                    /\ IsStr(g[i + 1]) /\ StrEq(g[i + 2], "-")
                    /\ IsStr(g[i + 3]) /\ StrEq(g[i + 4], "]")
                    /\ g[i + 1].c \notin {"\\", "[", "]", "-"}
                    /\ g[i + 3].c \notin {"\\", "[", "]", "-"}
                 THEN [ok |-> TRUE,
                       x |-> [k |-> "Collation", first |-> g[i + 1], last |-> g[i + 3]],
                       next |-> i + 5]
                 ELSE [ok |-> FALSE, x |-> NoTree, next |-> i + 1]
            ELSE IF item.c \in {"]", "-", "*", "+", "?"}
            THEN [ok |-> FALSE, x |-> NoTree, next |-> i + 1]
            ELSE [ok |-> TRUE, x |-> item, next |-> i + 1]
      IN
      IF StrEq(item, "|")
      THEN LET rest == RefTokens(g, i + 1)
           IN  [rest EXCEPT !.toks = <<Bar>> \o rest.toks]
      ELSE IF ~atom.ok THEN [ok |-> FALSE, toks |-> <<>>]
      ELSE LET u == RefUnary(g, atom.next, atom.x)
               rest == RefTokens(g, u.next)
           IN  [rest EXCEPT !.toks = <<u.x>> \o rest.toks]

\* The tokens from index i folded to the left: cat the concatenation of the
\* branch being read, alt the alternation of the branches before it.
RECURSIVE RefFold(_, _, _, _)
RefFold(toks, i, alt, cat) ==
    IF i > Len(toks)
    THEN IF cat = NoTree THEN [ok |-> FALSE, tree |-> NoTree]
         ELSE [ok |-> TRUE,
               tree |-> IF alt = NoTree THEN cat
                        ELSE [k |-> "Alternation", first |-> alt, last |-> cat]]
    ELSE IF toks[i] = Bar
    THEN IF cat = NoTree THEN [ok |-> FALSE, tree |-> NoTree]
         ELSE RefFold(toks, i + 1,
                      IF alt = NoTree THEN cat
                      ELSE [k |-> "Alternation", first |-> alt, last |-> cat],
                      NoTree)
    ELSE RefFold(toks, i + 1, alt,
                 IF cat = NoTree THEN toks[i]
                 ELSE [k |-> "Concatenation", first |-> cat, last |-> toks[i]])

\* The operator of the group g: unary operators bind tighter than
\* concatenation, concatenation tighter than alternation, both nest to the
\* left; a group that is one character is the Single of it.  ok is false
\* for a group that is no regex.
RefTree(g) ==
    LET t == RefTokens(g, 1)
        f == RefFold(t.toks, 1, NoTree, NoTree)
    IN  IF ~t.ok \/ ~f.ok THEN [ok |-> FALSE, tree |-> NoTree]
        ELSE [ok |-> TRUE,
              tree |-> IF IsStr(f.tree) THEN [k |-> "Single", item |-> f.tree]
                       ELSE f.tree]

(***************************************************************************)
(* C7: for every group that is a regex, _process yields the operator tree  *)
(* in which unary operators bind tighter than concatenation, concatenation *)
(* tighter than alternation, chains nest to the left and every operand     *)
(* stands once, in its original order.                                     *)
(***************************************************************************)
\* The positions of the outermost _process call.
InProcessSteps ==
    {"extracted", "escaped", "collated", "sublists", "unary", "concatenated",
     "alternated", "cleaned"}

\* The outermost _process call is running or has raised.
InProcess == pc \in InProcessSteps \cup {"raised"}

C7_ProcessPrecedence ==
    InProcess /\ RefTree(groups).ok =>
        /\ pc # "raised"
        /\ pc = "cleaned" => group = <<RefTree(groups).tree>>

(***************************************************************************)
(* C8: bracket extraction raises 'Unbalanced parentheses.' for every text  *)
(* whose unescaped parentheses are not properly nested, and for a properly *)
(* nested text every closing parenthesis closes the nearest open group.    *)
(***************************************************************************)
C8_UnbalancedRaises ==
    /\ ~ProperlyNested(text) =>
           pc = "new" \/ (pc = "raised" /\ error = UnbalancedParentheses)
    /\ pc = "extracted" /\ ProperlyNested(text)
          /\ (\A i \in 1..Len(text) : text[i] # "\\") =>
           groups = RefGroups(text)

(***************************************************************************)
(* C9: an escaped parenthesis opens and closes no group and is one literal *)
(* item of the group it stands in; \( accepts exactly "(" and (a\))        *)
(* accepts exactly "a)".                                                   *)
(***************************************************************************)
C9_EscapedParenthesis ==
    /\ pc = "extracted" /\ HasEscapedParenthesis(text, 1) /\ ProperlyNested(text) =>
           groups = RefGroups(text)
    /\ pc = "checked" /\ text = <<"\\", "(">> => is_ok = (input = <<"(">>)
    /\ pc = "checked" /\ text = <<"(", "a", "\\", ")", ")">> =>
           is_ok = (input = <<"a", ")">>)

(***************************************************************************)
(* C10: escape resolution turns every backslash that is not itself escaped *)
(* and the item after it into one Single of that item, left to right; an   *)
(* escaped item starts no escape.                                          *)
(***************************************************************************)
C10_EscapeResolution ==
    pc = "escaped" => group = RefEscape(groups, 1)

(***************************************************************************)
(* C11: in every group, a ] whose own bracket [ ... ] holds no - makes the *)
(* collation pass raise the parse error of a malformed collation, also     *)
(* after an earlier - outside the bracket or an earlier well-formed        *)
(* collation.                                                              *)
(***************************************************************************)
\* The index of the last [ of g before index j, 0 if there is none.
OpeningBracket(g, j) ==
    LET opens == {i \in 1..(j - 1) : StrEq(g[i], "[")}
    IN  IF opens = {} THEN 0 ELSE CHOOSE i \in opens : \A k \in opens : k <= i

\* g[j] is a ] and no - stands between it and its [.
NoDashAt(g, j) ==
    /\ StrEq(g[j], "]")
    /\ OpeningBracket(g, j) > 0
    /\ \A k \in (OpeningBracket(g, j) + 1)..(j - 1) : ~StrEq(g[k], "-")

\* g[j] closes a collation [x-y] of two ordinary characters.
WellFormedAt(g, j) ==
    /\ j >= 5
    /\ StrEq(g[j], "]") /\ StrEq(g[j - 2], "-") /\ StrEq(g[j - 4], "[")
    /\ IsStr(g[j - 1]) /\ g[j - 1].c \notin {"[", "-", "]"}
    /\ IsStr(g[j - 3]) /\ g[j - 3].c \notin {"[", "-", "]"}

\* The first ] of g that closes no well-formed collation has no - in its bracket.
MalformedCollation(g) ==
    \E j \in 1..Len(g) :
        /\ NoDashAt(g, j)
        /\ \A k \in 1..(j - 1) : StrEq(g[k], "]") => WellFormedAt(g, k)

C11_MissingDashRaises ==
    [][pc = "escaped" /\ MalformedCollation(group) =>
           pc' = "raised" /\ error' = CollationFailed]_vars

(***************************************************************************)
(* C12: Collation(lo, hi) executes to an automaton that accepts exactly    *)
(* the one-character texts x with ord(lo) <= ord(x) <= ord(hi), and the    *)
(* collation pass replaces each of several collations of a group by its    *)
(* own Collation(X, Y).                                                    *)
(***************************************************************************)
\* [x-y] of two ordinary characters stands at index i of g.
CollationAt(g, i) ==
    /\ i + 4 <= Len(g)
    /\ StrEq(g[i], "[") /\ StrEq(g[i + 2], "-") /\ StrEq(g[i + 4], "]")
    /\ IsStr(g[i + 1]) /\ g[i + 1].c \notin {"[", "-", "]"}
    /\ IsStr(g[i + 3]) /\ g[i + 3].c \notin {"[", "-", "]"}

\* From index i on, every [, - and ] of g is part of a collation [x-y].
RECURSIVE OnlyCollations(_, _)
OnlyCollations(g, i) ==
    IF i > Len(g) THEN TRUE
    ELSE IF CollationAt(g, i) THEN OnlyCollations(g, i + 5)
    ELSE ~StrEq(g[i], "[") /\ ~StrEq(g[i], "-") /\ ~StrEq(g[i], "]")
         /\ OnlyCollations(g, i + 1)

\* g from index i on with every [x-y] replaced by Collation(x, y).
RECURSIVE RefCollate(_, _)
RefCollate(g, i) ==
    IF i > Len(g) THEN <<>>
    ELSE IF CollationAt(g, i)
    THEN <<[k |-> "Collation", first |-> g[i + 1], last |-> g[i + 3]]>>
         \o RefCollate(g, i + 5)
    ELSE <<g[i]>> \o RefCollate(g, i + 1)

\* No item of g is a backslash: the escape pass leaves g as it is.
NoEscape(g) == \A i \in 1..Len(g) : ~StrEq(g[i], "\\")

ParseErrors == {UnbalancedParentheses, ParsingFailed, CollationFailed}

\* An unescaped ( of t is followed at once by ).
HasEmptyGroup(t) ==
    \E i \in 1..(Len(t) - 1) :
        t[i] = "(" /\ t[i + 1] = ")" /\ (i = 1 \/ t[i - 1] # "\\")

C13_EmptyPatternParseError ==
    /\ [](text = <<>> \/ HasEmptyGroup(text) =>
             \/ pc = "new"
             \/ pc \in InProcessSteps
             \/ pc = "raised" /\ error \in ParseErrors)
    /\ [][pc = "cleaned" /\ Len(group) > 1 =>
             pc' = "raised" /\ error' = ParsingFailed]_vars

(***************************************************************************)
(* C14: entering a symbol that is not in the inputs of the epsilon-NFA     *)
(* raises the invalid-input error and leaves the current set as it was     *)
(* before the call.                                                        *)
(***************************************************************************)
C14_InvalidSymbolRaises ==
    /\ pc = "enter_raised" =>
           error = InvalidInput /\ input[1] \notin automaton.inputs /\ current = before
    /\ pc = "entered" => input[1] \in automaton.inputs

\* An invalid symbol was entered after the automaton had left its start.
C14_Witness ==
    /\ pc = "enter_raised" /\ input[1] \notin automaton.inputs
    /\ before # {} /\ automaton.start \notin before

(***************************************************************************)
(* C19: after successful enter calls the current set is a set of states of *)
(* the automaton and is epsilon-closed: _e_closures returns it unchanged.  *)
(***************************************************************************)
C19_CurrentEpsilonClosed ==
    pc \in {"entered", "checked"} =>
        /\ current \subseteq NameSet(automaton)
        /\ _e_closures(automaton, current) = current
        /\ EpsilonReach(automaton, current) = current

\* The current set after an enter holds a state entered by an epsilon move.
C19_Witness ==
    /\ pc = "entered"
    /\ \E d \in automaton.delta :
           d[2] = Epsilon /\ d[1] \in current /\ d[3] \in current /\ d[1] # d[3]

(***************************************************************************)
(* C20: entering a valid symbol on which no active state has a transition  *)
(* raises nothing and empties the current set; every further enter of a    *)
(* valid symbol leaves it empty and accepted false.                        *)
(***************************************************************************)
\* The symbol of the last enter call.
Entered == input[1]

C20_DeadStateStays ==
    /\ pc = "enter_raised" => Entered \notin automaton.inputs
    /\ pc = "entered" /\ (\A state \in before : Forward(automaton, state, Entered) = {}) =>
           current = {} /\ ~is_ok /\ ~accepted(automaton, current)

\* A valid symbol was entered into the dead automaton.
C20_Witness ==
    pc = "entered" /\ before = {} /\ current = {} /\ Entered \in {"a", "b"}

(***************************************************************************)
(* C15: after DeterministicPDA._process the automaton is accepted only if  *)
(* every symbol of the entry was consumed by a transition that fired and   *)
(* the current state is an accept state; a call in which a step entered    *)
(* the failure state is not accepted, and no input symbol is processed     *)
(* with the failure state as current state.                                *)
(***************************************************************************)
C15_AcceptedOnlyIfConsumed ==
    /\ ppc = "done" /\ PDA_accepted(pda) =>
           trail.fired = trail.total /\ pda.current \in pda.accepted_states
    /\ ppc = "done" /\ trail.failed => ~PDA_accepted(pda)
    /\ ppc \in {"loop", "tail", "done"} => trail.late = 0

\* The last of two symbols led to the failure state.
C15_Witness ==
    /\ ppc = "done" /\ trail.total = 2 /\ trail.fired = 1 /\ trail.failed
    /\ pda.processed_all /\ ~PDA_accepted(pda)

(***************************************************************************)
(* C16: _access with the top t on a non-empty stack pops t; a move of the  *)
(* current state for (epsilon, t) fires also when one for (v, t) exists,   *)
(* and v stays in the entry; otherwise the move for (v, t) fires and v is  *)
(* consumed; the push sequence without its placeholders is pushed and the  *)
(* target becomes the current state.                                       *)
(***************************************************************************)
\* The move of the automaton p in its current state for the input i.
MoveOn(p, i) ==
    LET key == <<p.current, i, p.stack[Len(p.stack)]>>
    IN  IF key \in DOMAIN p.delta THEN p.delta[key] ELSE NoMove

\* The stack of p with move's push sequence in place of its top.
StackAfter(p, move) ==
    SubSeq(p.stack, 1, Len(p.stack) - 1)
        \o SelectSeq(move.push, LAMBDA x : x # EmptySymbol)

C16_EpsilonMoveFirst ==
    ppc \in {"loop", "done"} /\ trail.op = "access" /\ Len(trail.pre.stack) > 0 =>
        LET pre == trail.pre
            on_empty == MoveOn(pre, EmptySymbol)
            on_value == MoveOn(pre, trail.value)
        IN  IF on_empty # NoMove
            THEN /\ pda.current = on_empty.to
                 /\ pda.stack = StackAfter(pre, on_empty)
                 /\ ~trail.go_on
                 /\ Len(entry) = trail.left /\ Head(entry) = trail.value
            ELSE on_value # NoMove =>
                 /\ pda.current = on_value.to
                 /\ pda.stack = StackAfter(pre, on_value)
                 /\ trail.go_on
                 /\ Len(entry) = trail.left - 1

\* The move for (epsilon, t) has fired although another for (v, t) exists.
C16_Witness ==
    /\ ppc = "loop" /\ trail.op = "access" /\ Len(trail.pre.stack) > 0
    /\ MoveOn(trail.pre, EmptySymbol) # NoMove
    /\ MoveOn(trail.pre, trail.value) # NoMove
    /\ MoveOn(trail.pre, trail.value) # MoveOn(trail.pre, EmptySymbol)
    /\ pda.current = MoveOn(trail.pre, EmptySymbol).to

(***************************************************************************)
(* C17: every call of DeterministicPDA._process returns.                   *)
(***************************************************************************)
C17_ProcessTerminates == (ppc \in {"loop", "tail"}) ~> (ppc = "done")

(***************************************************************************)
(* C18: reset restores the configuration of the constructed automaton      *)
(* after any operations: the start state, the stack of the start symbol    *)
(* alone, processed_all true; a second reset changes nothing.              *)
(***************************************************************************)
C18_ResetRestores ==
    ppc = "ready" /\ trail.op = "reset" =>
        /\ pda.current = pda.start_state
        /\ pda.stack = <<pda.start_symbol>>
        /\ pda.processed_all
        /\ pda = NewPDA(pda.delta)
        /\ PDA_reset(pda) = pda

\* A reset out of the failure state, with the stack emptied and
\* processed_all false.
C18_Witness ==
    /\ ppc = "ready" /\ trail.op = "reset"
    /\ trail.pre.current = FailedState /\ trail.pre.stack = <<>>
    /\ ~trail.pre.processed_all

(***************************************************************************)
(* C21: _e_closures(S) terminates on every finite automaton, cycles of     *)
(* epsilon-transitions included, and returns exactly the least superset of *)
(* S closed under the epsilon-transitions, in whatever order the states    *)
(* are visited and whatever closures were computed before: a returned call *)
(* holds that set, a call makes at most one _e_closure call for each state *)
(* of the automaton, and a running call leads to its return.               *)
(***************************************************************************)
C21_Returned ==
    call.pc = "returned" => call.currents = EpsilonReach(automaton, call.states)

C21_EachStateOnce ==
    call.pc \in {"loop", "returned"} =>
        /\ call.calls <= Cardinality(NameSet(automaton))
        /\ Len(call.stack) <= Cardinality(NameSet(automaton))

C21_ClosuresLeastClosed ==
    /\ [](C21_Returned /\ C21_EachStateOnce)
    /\ (call.pc = "loop") ~> (call.pc = "returned")

\* A returned call on an automaton with a cycle of two states or more
\* inside the closure, begun from two states, that added a state, after a
\* call that left some other states in the default set.
C21_Witness ==
    /\ call.pc = "returned"
    /\ Cardinality(call.states) = 2
    /\ call.currents # call.states
    /\ \E s \in call.currents, t \in call.currents :
         /\ s # t
         /\ t \in EpsilonReach(automaton, {s})
         /\ s \in EpsilonReach(automaton, {t})
    /\ accumulator # {}
    /\ accumulator # call.currents
    /\ accumulator # call.states

(***************************************************************************)
(* C22: the value RegEx.check(t) returns depends on t alone: whatever      *)
(* check calls came before on the same RegEx, and whatever current set     *)
(* they left, it is the value check(t) returns on the RegEx compiled       *)
(* afresh from the same operator tree.                                     *)
(***************************************************************************)
Fresh == execute(groups).val

C22_CheckForgetsHistory ==
    pc = "checked" =>
        /\ is_ok = check(Fresh, reset(Fresh, {}), input).is_ok
        /\ entered = check(Fresh, reset(Fresh, {}), input).entered

\* A check that enters a character and accepts after an earlier check left
\* the automaton dead.
C22_Witness ==
    /\ pc = "checked"
    /\ entered # <<>>
    /\ before = {}
    /\ is_ok

(***************************************************************************)
(* C23: the epsilon symbol $ is never consumable as an input character:    *)
(* for a regex whose text has no $, $ is not among the valid characters    *)
(* and check returns False for every text that contains $.                 *)
(***************************************************************************)
Contains(t, c) == \E i \in 1..Len(t) : t[i] = c

C23_EpsilonNotConsumable ==
    Compiled /\ ~Contains(text, Epsilon) =>
        /\ Epsilon \notin valid_characters(automaton)
        /\ pc = "checked" /\ Contains(input, Epsilon) => ~is_ok

(***************************************************************************)
(* C24: a call of _access_epsilon that returns False, on an empty stack or *)
(* with no transition on the empty symbol for the current state and the    *)
(* top of the stack, leaves the current state and the stack of the         *)
(* automaton as they were before the call.                                 *)
(***************************************************************************)
C24_FailedEpsilonKeepsConfiguration ==
    ppc = "done" /\ trail.op = "epsilon" /\ ~trail.go_on =>
        /\ pda.current = trail.pre.current
        /\ pda.stack = trail.pre.stack

(***************************************************************************)
(* C25: Lexer.scan terminates on every finite text, and every token it     *)
(* returns has a value that is not empty, is a contiguous piece of the     *)
(* text and is accepted in full by the regex whose name is the token's     *)
(* type; the tokens stand in the order of the text and their pieces do not *)
(* overlap.  Termination: a running scan can always take its next step,    *)
(* and every step that does not return makes a measure smaller that is     *)
(* never negative: twice the number of characters still to be read, plus   *)
(* one while a token is begun.                                             *)
(***************************************************************************)
Remaining ==
    2 * (Len(lex.text) - lex.offset - lex.i) + (IF lex.start_index # -1 THEN 1 ELSE 0)

\* The regex of the lexer l with that name accepts t, checked afresh.
AcceptedBy(l, name, t) ==
    \E k \in DOMAIN l.regexes :
        /\ l.regexes[k].name = name
        /\ check(l.regexes[k].automaton, reset(l.regexes[k].automaton, {}), t).is_ok

C25_Tokens ==
    lex.pc \in {"scanning", "returned"} =>
        /\ \A k \in DOMAIN lex.tokens :
             LET token == lex.tokens[k]
             IN  /\ token.token_value # <<>>
                 /\ 0 <= token.from /\ token.from < token.to /\ token.to <= Len(lex.text)
                 /\ token.token_value = SubSeq(lex.text, token.from + 1, token.to)
                 /\ AcceptedBy(lex, token.token_type, token.token_value)
                 /\ k > 1 => lex.tokens[k - 1].to <= token.from
        /\ lex.depth <= Len(lex.text)
        /\ lex.offset + lex.i <= Len(lex.text)

C25_ScanTokens ==
    /\ []C25_Tokens
    /\ [][lex.pc = "scanning" =>
             \/ lex'.pc = "returned"
             \/ lex'.pc = "scanning" /\ Remaining' < Remaining]_vars

\* A returned scan with two tokens, the first of them of a regex the scan
\* changed to after it had begun the token with another, the second found
\* by the scan call on the rest of the text.
C25_Witness ==
    /\ lex.pc = "returned"
    /\ Len(lex.tokens) = 2
    /\ lex.depth = 1
    /\ Len(lex.regexes) = 2
    /\ lex.tokens[1].token_type = "AB"
    /\ lex.regexes[1].name = "A"
    /\ lex.tokens[2].from = lex.tokens[1].to

====
